---- MODULE Spec2Model ----
(***************************************************************************)
(* The two test runners of the repository, tools/testrunner.py and         *)
(* tools/run_tests.py, as one state machine.  The variable `tool` says     *)
(* which of the two scripts is running.  A run walks the test sets of      *)
(* testsets.json, skips or executes every case, counts the outcome in      *)
(* `results` and prints one line per case through the Reporter.            *)
(*                                                                         *)
(* Python strings that the code slices, splits or searches are sequences   *)
(* of one-character strings, so that slicing, splitting and substring      *)
(* search are computed and not assumed.                                    *)
(***************************************************************************)
EXTENDS Integers, Sequences, FiniteSets, TLC

(***************************************************************************)
(* Bounds of the model.                                                    *)
(***************************************************************************)
\* Largest number of cases in the whole manifest.
MaxCases == 2
\* Seconds of wall-clock time followed after a case's alarm is armed.
MaxTime == 2

(***************************************************************************)
(* Python string operations used by the skip predicates.                   *)
(***************************************************************************)
\* `m in s` for two strings: m occurs in s as a contiguous substring.
IsSubstring(m, s) ==
    \E i \in 0..(Len(s) - Len(m)) : SubSeq(s, i + 1, i + Len(m)) = m

\* s[0:-3]: all but the last three characters.
StripExt(s) == SubSeq(s, 1, Len(s) - 3)

\* s.split('_'): the parts between underscores; never an empty list.
RECURSIVE Split(_)
Split(s) ==
    IF \A i \in 1..Len(s) : s[i] # "_"
    THEN << s >>
    ELSE LET i == CHOOSE j \in 1..Len(s) :
                      s[j] = "_" /\ \A k \in 1..(j - 1) : s[k] # "_"
         IN  << SubSeq(s, 1, i - 1) >> \o Split(SubSeq(s, i + 1, Len(s)))

\* x in lst, for a Python list lst.
InList(x, lst) == \E i \in 1..Len(lst) : lst[i] = x

(***************************************************************************)
(* Inputs: case names, module names, case descriptors, configurations.     *)
(***************************************************************************)
Str_test_fs_js == << "t","e","s","t","_","f","s",".","j","s" >>
Str_test_js    == << "t","e","s","t",".","j","s" >>
Str_run_js     == << "r","u","n",".","j","s" >>
Str_fs         == << "f","s" >>
Str_net        == << "n","e","t" >>
Str_test_fs_a_js == << "t","e","s","t","_","f","s","_","a",".","j","s" >>
Str_run_fs_js  == << "r","u","n","_","f","s",".","j","s" >>

\* The optional key "timeout" of a case: << >> when absent, << n >> when n.
NoTimeout == << >>

\* What open() and read() find for the file a case's key "expected" names:
\* the bytes the child printed, other bytes, or no readable file.
Goldens == { "same", "differs", "missing" }

\* The case descriptors of testsets.json a run may meet.  `xfail` is the
\* key "expected-failure" of testrunner.py and the key "fail" of
\* run_tests.py; `expected` says whether the key "expected" is present, and
\* `golden` is the state of the file it names ("none" without the key).
\* Cases that differ in what decides skipping, cases that differ in what
\* decides the execution and the verdict, and (run_tests.py) cases with an
\* expected-output file.
TestNames == { Str_test_fs_js, Str_test_js, Str_run_js }
SkipLists == { << >>, << "all" >>, << "stable" >> }
Timeouts  == { NoTimeout, << 1 >>, << 2 >> }
Tests(t) ==
    [ name : TestNames, skip : SkipLists, timeout : { NoTimeout },
      xfail : { FALSE }, expected : { FALSE }, golden : { "none" } ]
    \cup
    [ name : { Str_run_js }, skip : { << >> }, timeout : Timeouts,
      xfail : BOOLEAN, expected : { FALSE }, golden : { "none" } ]
    \cup
    IF t = "run_tests"
    THEN [ name : { Str_run_js }, skip : { << >> }, timeout : { NoTimeout },
           xfail : BOOLEAN, expected : { TRUE }, golden : Goldens ]
    ELSE { }

\* The runner objects after construction: the attributes __init__ reads
\* from its arguments object.  testrunner.py reads `builtins` and
\* `experimental`, which the arguments object has to carry.
Configs ==
    { [ timeout |-> 2, skip_modules |-> << >>, builtins |-> << Str_fs >>,
        stability |-> "stable", os |-> "linux", skip_expected |-> FALSE ],
      [ timeout |-> 1, skip_modules |-> << Str_fs >>, builtins |-> << >>,
        stability |-> "experimental", os |-> "linux", skip_expected |-> TRUE ] }

\* Inputs of the skip predicates taken alone: names with and without the
\* prefix test, with and without a module part, with a module token inside;
\* every tag the predicates look for; allow-lists of builtins that are
\* empty, hold the module, or hold another one; both stability tiers.
SkipNames ==
    { Str_test_fs_js, Str_test_fs_a_js, Str_test_js, Str_run_js, Str_run_fs_js }
SkipTags ==
    { << >>, << "all" >>, << "linux" >>, << "stable" >>, << "experimental" >> }
SkipTests ==
    [ name : SkipNames, skip : SkipTags, timeout : { NoTimeout },
      xfail : { FALSE }, expected : { FALSE }, golden : { "none" } ]
SkipConfigs ==
    [ timeout : { 1 }, skip_modules : { << >> },
      builtins : { << >>, << Str_fs >>, << Str_net >> },
      stability : { "stable", "experimental" }, os : { "linux" },
      skip_expected : { FALSE } ]
\* The values of --skip-modules, split at the commas.
ModuleLists == { << Str_fs >>, << Str_net >>, << Str_net, Str_fs >> }

\* Exit codes of a child process; a negative code is a death by signal.
ExitCodes == { -9, 0, 1 }

\* The test sets of testsets.json, by position in the document.
SetNames == << "run_pass", "run_fail" >>

\* A manifest gives, for every test set of the document, its number of cases.
RECURSIVE SumSeq(_)
SumSeq(s) == IF s = << >> THEN 0 ELSE Head(s) + SumSeq(Tail(s))

Manifests ==
    { m \in UNION { [ 1..n -> 0..MaxCases ] : n \in 0..Len(SetNames) } :
        SumSeq(m) <= MaxCases }

\* The orders in which a dict of n keys may be iterated.
Orders(n) ==
    { o \in [ 1..n -> 1..n ] : \A i, j \in 1..n : i # j => o[i] # o[j] }

(***************************************************************************)
(* tools/testrunner.py: TestRunner.skip_test.  The result is "True",       *)
(* "False", or "IndexError" when parts[1] does not exist.                  *)
(***************************************************************************)
\* (skip_test_GateFirst: the bug of looking at the name's prefix before
\* the --skip-modules list, so that a name without the prefix test is
\* never skipped by module.)
skip_test_GateFirst(self, test) ==
    LET skip_list == test.skip
        parts     == Split(StripExt(test.name))
    IN  IF \E i \in { "all", self.os, self.stability } : InList(i, skip_list)
        THEN "True"
        ELSE IF parts[1] # << "t","e","s","t" >>
        THEN "False"
        ELSE IF \E k \in 1..Len(self.skip_modules) :
                    IsSubstring(self.skip_modules[k], test.name)
        THEN "True"
        ELSE IF Len(parts) < 2
        THEN "IndexError"
        ELSE IF InList(parts[2], self.builtins)
        THEN "False"
        ELSE "True"

skip_test(self, test) ==
    LET skip_list == test.skip
        parts     == Split(StripExt(test.name))
    IN  IF \E i \in { "all", self.os, self.stability } : InList(i, skip_list)
        THEN "True"
        ELSE IF \E k \in 1..Len(self.skip_modules) :
                    IsSubstring(self.skip_modules[k], test.name)
        THEN "True"
        ELSE IF parts[1] # << "t","e","s","t" >>
        THEN "False"
        ELSE IF Len(parts) < 2
        THEN "IndexError"
        ELSE IF InList(parts[2], self.builtins)
        THEN "False"
        ELSE "True"

(***************************************************************************)
(* tools/run_tests.py: TestRunner.should_be_skipped.                       *)
(***************************************************************************)
should_be_skipped(self, test) ==
    LET skip_list == test.skip
    IN  IF InList("all", skip_list) \/ InList(self.os, skip_list)
        THEN TRUE
        ELSE IF self.skip_modules = << >>
        THEN FALSE
        ELSE \E k \in 1..Len(self.skip_modules) :
                 IsSubstring(self.skip_modules[k], test.name)

\* The skip decision of the running tool, as the result of the call.
SkipResult(t, self, test) ==
    IF t = "testrunner"
    THEN skip_test(self, test)
    ELSE IF should_be_skipped(self, test) THEN "True" ELSE "False"

\* test.get("timeout", self.timeout): the seconds handed to signal.alarm.
TimeoutArg(self, test) ==
    IF test.timeout = NoTimeout THEN self.timeout ELSE test.timeout[1]

\* testrunner.py run_testset: the counter and report chosen for a case from
\* run_test's return value and test.get("expected-failure", False).
\* bool(exitcode) == expected_failure is a pass.
\* (Verdict_PositiveOnly: the bug of testing exitcode > 0 instead of its truth
\* value, which takes a signal-killed child for a success.)
Verdict_PositiveOnly(exitcode, expected_failure) ==
    IF exitcode.kind = "TIMEOUT" THEN "timeout"
    ELSE IF (exitcode.code > 0) = expected_failure THEN "pass"
    ELSE "fail"

Verdict(exitcode, expected_failure) ==
    IF exitcode.kind = "TIMEOUT" THEN "timeout"
    ELSE IF (exitcode.code # 0) = expected_failure THEN "pass"
    ELSE "fail"

\* run_tests.py is_output_as_expected: True, or the NameError raised by the
\* undefined name `paths` once an expected file is to be compared.
is_output_as_expected(self, expected_filename) ==
    IF ~expected_filename \/ self.skip_expected THEN "True" ELSE "NameError"

\* run_tests.py validate_results: exitcode_is_ok = not (exitcode and should_fail).
validate_results(exitcode, should_fail, output_is_ok) ==
    IF ~(exitcode # 0 /\ should_fail) /\ output_is_ok THEN "pass" ELSE "fail"

\* The program positions at which a TimeoutException raised by the SIGALRM
\* handler is inside the try block that catches it.
InTry(t, at) ==
    IF t = "testrunner"
    THEN at \in { "tr_communicate", "tr_got" }
    ELSE at \in { "rt_with", "rt_popened" }

(***************************************************************************)
(* State.                                                                  *)
(***************************************************************************)
VARIABLES
    tool,        \* "testrunner" (tools/testrunner.py) or "run_tests"
    self,        \* the TestRunner object's configuration fields
    manifest,    \* testsets.json: the number of cases of every set
    items,       \* the order in which testsets.items() yields the sets
    si,          \* how many sets run()'s loop has taken
    ci,          \* how many cases run_testset's loop has taken in this set
    test,        \* the case descriptor the loop holds
    pc,          \* position of the program
    results,     \* self.results
    events,      \* the Reporter calls made so far
    alarm,       \* seconds until SIGALRM is due, 0 when no alarm is armed
    pending,     \* SIGALRM was delivered and its handler has not run yet
    child,       \* the process of the current Popen object and its exit code
    retval,      \* what run_test returned
    orphans,     \* earlier children that are still alive
    spawned,     \* processes created so far
    elapsed,     \* seconds since the current case's alarm was armed
    raised,      \* the exception that left run(), if any
    exitStatus   \* exit status of the runner process

vars == << tool, self, manifest, items, si, ci, test, pc, results, events,
           alarm, pending, child, retval, orphans, spawned,
           elapsed, raised, exitStatus >>

NoTest == [ name |-> << >> ]
None   == "None"

\* A Popen object's process: not created, running, exited and not yet waited
\* for, waited for (returncode set), or sent SIGKILL.
Proc(st, code) == [ st |-> st, code |-> code ]
NoProc == Proc("none", 0)

\* run_test's return value: "TIMEOUT" or an exit code.
Returned(kind, code) == [ kind |-> kind, code |-> code ]
NoReturn == Returned("none", 0)
ZeroResults == [ pass |-> 0, fail |-> 0, skip |-> 0, timeout |-> 0 ]

\* self.results[k], 0 while the dict has no such key.
Counted(k) == IF k \in DOMAIN results THEN results[k] ELSE 0

\* The set the loop of run() is in, by its position in the document.
CurSet == items[si]

Event(kind) == [ ev |-> kind, set |-> CurSet, idx |-> ci + 1 ]

Init ==
    /\ tool \in { "testrunner", "run_tests" }
    /\ self \in Configs
    /\ manifest \in Manifests
    /\ items \in Orders(Len(manifest))
    /\ si = 0
    /\ ci = 0
    /\ test = NoTest
    /\ pc = "init"
    /\ results = IF tool = "run_tests" THEN ZeroResults ELSE [ k \in {} |-> 0 ]
    /\ events = << >>
    /\ alarm = 0
    /\ pending = FALSE
    /\ child = NoProc
    /\ retval = NoReturn
    /\ orphans = 0
    /\ spawned = 0
    /\ elapsed = 0
    /\ raised = None
    /\ exitStatus = 0

Config == << tool, self, manifest, items >>
Timer  == << alarm, pending, elapsed >>

\* An exception leaves run() and main(): the interpreter prints the
\* traceback and the process ends with status 1.
Abort(exc) ==
    /\ pc' = "aborted"
    /\ raised' = exc
    /\ exitStatus' = 1

\* One Reporter call for the current case and the matching counter.
\* (Decide_SkipUncounted: the bug of reporting a skip without counting it.)
Decide_SkipUncounted(kind) ==
    /\ events' = Append(events, Event(kind))
    /\ results' = IF kind = "skip" THEN results
                  ELSE [ results EXCEPT ![kind] = @ + 1 ]
    /\ ci' = ci + 1
    /\ test' = NoTest
    /\ elapsed' = 0

Decide(kind) ==
    /\ events' = Append(events, Event(kind))
    /\ results' = [ results EXCEPT ![kind] = @ + 1 ]
    /\ ci' = ci + 1
    /\ test' = NoTest
    /\ elapsed' = 0

MoreTests == pc = "tests" /\ ci < manifest[CurSet]

(***************************************************************************)
(* run() and run_testset(), common to both tools.                          *)
(***************************************************************************)
\* run() up to its loop: report_configuration (testrunner.py only), the
\* counters set to zero, testsets.json loaded.
Run ==
    /\ pc = "init"
    /\ events' = IF tool = "testrunner"
                 THEN Append(events, [ ev |-> "config", set |-> 0, idx |-> 0 ])
                 ELSE events
    /\ results' = ZeroResults
    /\ pc' = "sets"
    /\ UNCHANGED << Config, si, ci, test, Timer, child, retval, orphans,
                    spawned, raised, exitStatus >>

\* run()'s loop takes the next set; run_testset reports it.
RunTestset ==
    /\ pc = "sets"
    /\ si < Len(items)
    /\ si' = si + 1
    /\ ci' = 0
    /\ events' = Append(events,
                        [ ev |-> "testset", set |-> items[si + 1], idx |-> 0 ])
    /\ pc' = "tests"
    /\ UNCHANGED << Config, test, results, Timer, child, retval, orphans,
                    spawned, raised, exitStatus >>

\* run_testset's loop is exhausted and the call returns.
EndTestset ==
    /\ pc = "tests"
    /\ ci = manifest[CurSet]
    /\ pc' = "sets"
    /\ UNCHANGED << Config, si, ci, test, results, events, Timer, child,
                    retval, orphans, spawned, raised, exitStatus >>

\* run()'s loop is exhausted: report_final, run() and main() return, and
\* the interpreter exits.
ReportFinal ==
    /\ pc = "sets"
    /\ si = Len(items)
    /\ events' = Append(events, [ ev |-> "final", set |-> 0, idx |-> 0 ])
    /\ pc' = "done"
    /\ exitStatus' = 0
    /\ UNCHANGED << Config, si, ci, test, results, Timer, child, retval,
                    orphans, spawned, raised >>

\* The skip predicate says skip: report_skip, count, continue.
SkipCase(t) ==
    /\ MoreTests
    /\ SkipResult(tool, self, t) = "True"
    /\ Decide("skip")
    /\ UNCHANGED << Config, si, pc, alarm, pending, child, retval, orphans, spawned, raised, exitStatus >>

\* skip_test raises on parts[1].
SkipRaises(t) ==
    /\ MoreTests
    /\ SkipResult(tool, self, t) = "IndexError"
    /\ test' = t
    /\ Abort("IndexError")
    /\ UNCHANGED << Config, si, ci, results, events, Timer, child, retval,
                    orphans, spawned >>

(***************************************************************************)
(* tools/testrunner.py: run_test and the rest of run_testset.              *)
(***************************************************************************)
\* subprocess.Popen creates the child.
TR_Popen(t) ==
    /\ tool = "testrunner"
    /\ MoreTests
    /\ SkipResult(tool, self, t) = "False"
    /\ test' = t
    /\ child' = Proc("running", 0)
    /\ spawned' = spawned + 1
    /\ retval' = NoReturn
    /\ elapsed' = 0
    /\ pc' = "tr_popened"
    /\ UNCHANGED << Config, si, ci, results, events, alarm, pending, orphans,
                    raised, exitStatus >>

\* subprocess.Popen raises OSError (no such binary, permission denied).
TR_PopenFails(t) ==
    /\ tool = "testrunner"
    /\ MoreTests
    /\ SkipResult(tool, self, t) = "False"
    /\ test' = t
    /\ Abort("OSError")
    /\ UNCHANGED << Config, si, ci, results, events, Timer, child, retval,
                    orphans, spawned >>

\* signal.alarm(test.get("timeout", self.timeout)).
TR_Alarm ==
    /\ pc = "tr_popened"
    /\ alarm' = TimeoutArg(self, test)
    /\ pending' = FALSE
    /\ elapsed' = 0
    /\ pc' = "tr_armed"
    /\ UNCHANGED << Config, si, ci, test, results, events, child, retval,
                    orphans, spawned, raised, exitStatus >>

\* The try block is entered and process.communicate() starts to wait.
TR_Try ==
    /\ pc = "tr_armed"
    /\ ~pending
    /\ pc' = "tr_communicate"
    /\ UNCHANGED << Config, si, ci, test, results, events, Timer, child,
                    retval, orphans, spawned, raised, exitStatus >>

\* communicate() returns: the child has exited and was waited for.
TR_Communicate ==
    /\ pc = "tr_communicate"
    /\ ~pending
    /\ child.st = "exited"
    /\ child' = Proc("reaped", child.code)
    /\ pc' = "tr_got"
    /\ UNCHANGED << Config, si, ci, test, results, events, Timer, retval,
                    orphans, spawned, raised, exitStatus >>

\* exitcode = process.returncode; signal.alarm(0); return exitcode.
\* (TR_AlarmOff_NoCancel: the bug of returning without signal.alarm(0).)
TR_AlarmOff_NoCancel ==
    /\ pc = "tr_got"
    /\ ~pending
    /\ retval' = Returned("code", child.code)
    /\ pc' = "tr_ret"
    /\ UNCHANGED << Config, si, ci, test, results, events, Timer, child,
                    orphans, spawned, raised, exitStatus >>

TR_AlarmOff ==
    /\ pc = "tr_got"
    /\ ~pending
    /\ alarm' = 0
    /\ retval' = Returned("code", child.code)
    /\ pc' = "tr_ret"
    /\ UNCHANGED << Config, si, ci, test, results, events, pending, elapsed,
                    child, orphans, spawned, raised, exitStatus >>

\* alarm_handler raises inside the try block: process.kill() and
\* return "TIMEOUT".  kill() only sends SIGKILL; nothing waits for the child.
TR_Timeout ==
    /\ tool = "testrunner"
    /\ pending
    /\ InTry(tool, pc)
    /\ pending' = FALSE
    /\ child' = IF child.st = "running" THEN Proc("killed", 0) ELSE child
    /\ retval' = Returned("TIMEOUT", 0)
    /\ pc' = "tr_ret"
    /\ UNCHANGED << Config, si, ci, test, results, events, alarm, elapsed,
                    orphans, spawned, raised, exitStatus >>

\* alarm_handler raises after communicate() has waited for the child:
\* with Python 2 process.kill() signals a pid that no longer exists and
\* raises OSError inside the except clause.
TR_KillRaises ==
    /\ tool = "testrunner"
    /\ pending
    /\ pc = "tr_got"
    /\ pending' = FALSE
    /\ Abort("OSError")
    /\ UNCHANGED << Config, si, ci, test, results, events, alarm, elapsed,
                    child, retval, orphans, spawned >>

\* run_testset after run_test returned: one report, one counter.
Classify ==
    /\ pc = "tr_ret"
    /\ Decide(Verdict(retval, test.xfail))
    /\ orphans' = IF child.st = "killed" THEN orphans + 1 ELSE orphans
    /\ child' = NoProc
    /\ retval' = NoReturn
    /\ pc' = "tests"
    /\ UNCHANGED << Config, si, alarm, pending, spawned, raised,
                    exitStatus >>

(***************************************************************************)
(* tools/run_tests.py: run_test with the Timeout context manager, and      *)
(* validate_results.                                                       *)
(***************************************************************************)
\* Timeout.__enter__: signal.signal and signal.alarm(self.seconds).
RT_Enter(t) ==
    /\ tool = "run_tests"
    /\ MoreTests
    /\ SkipResult(tool, self, t) = "False"
    /\ test' = t
    /\ alarm' = TimeoutArg(self, t)
    /\ pending' = FALSE
    /\ elapsed' = 0
    /\ pc' = "rt_with"
    /\ UNCHANGED << Config, si, ci, results, events, child, retval, orphans,
                    spawned, raised, exitStatus >>

\* The body of the with statement: subprocess.Popen creates the child.
RT_Popen ==
    /\ pc = "rt_with"
    /\ ~pending
    /\ child' = Proc("running", 0)
    /\ spawned' = spawned + 1
    /\ pc' = "rt_popened"
    /\ UNCHANGED << Config, si, ci, test, results, events, Timer, retval,
                    orphans, raised, exitStatus >>

\* subprocess.Popen raises OSError; __exit__ disarms the alarm on the way out.
RT_PopenFails ==
    /\ pc = "rt_with"
    /\ ~pending
    /\ alarm' = 0
    /\ Abort("OSError")
    /\ UNCHANGED << Config, si, ci, test, results, events, pending, elapsed,
                    child, retval, orphans, spawned >>

\* Timeout.__exit__: signal.alarm(0); communicate() starts to wait.
RT_Exit ==
    /\ pc = "rt_popened"
    /\ ~pending
    /\ alarm' = 0
    /\ pc' = "rt_wait"
    /\ UNCHANGED << Config, si, ci, test, results, events, pending, elapsed,
                    child, retval, orphans, spawned, raised,
                    exitStatus >>

\* handle_timeout raises inside the with statement: __exit__, then
\* report_timeout and the counter; a child already created is left alone.
RT_Timeout ==
    /\ tool = "run_tests"
    /\ pending
    /\ InTry(tool, pc)
    /\ pending' = FALSE
    /\ alarm' = 0
    /\ Decide("timeout")
    /\ orphans' = IF child.st = "running" THEN orphans + 1 ELSE orphans
    /\ child' = NoProc
    /\ pc' = "tests"
    /\ UNCHANGED << Config, si, retval, spawned,
                    raised, exitStatus >>

\* communicate() returns and validate_results reports pass or fail.
RT_Validate ==
    /\ pc = "rt_wait"
    /\ child.st = "exited"
    /\ is_output_as_expected(self, test.expected) = "True"
    /\ Decide(validate_results(child.code, test.xfail, TRUE))
    /\ child' = NoProc
    /\ pc' = "tests"
    /\ UNCHANGED << Config, si, alarm, pending, retval, orphans, spawned,
                    raised, exitStatus >>

\* communicate() returns and is_output_as_expected raises NameError.
RT_ValidateRaises ==
    /\ pc = "rt_wait"
    /\ child.st = "exited"
    /\ is_output_as_expected(self, test.expected) = "NameError"
    /\ child' = Proc("reaped", child.code)
    /\ Abort("NameError")
    /\ UNCHANGED << Config, si, ci, test, results, events, Timer, retval,
                    orphans, spawned >>

(***************************************************************************)
(* The environment: time, the alarm signal, the child processes.           *)
(***************************************************************************)
Running == pc \notin { "init", "done", "aborted" }

\* One second passes; an armed alarm that reaches zero delivers SIGALRM.
Tick ==
    /\ Running
    /\ alarm > 0 \/ pc = "rt_wait"
    /\ elapsed < MaxTime
    /\ elapsed' = elapsed + 1
    /\ alarm' = IF alarm > 0 THEN alarm - 1 ELSE 0
    /\ pending' = (pending \/ alarm = 1)
    /\ UNCHANGED << Config, si, ci, test, pc, results, events, child, retval,
                    orphans, spawned, raised, exitStatus >>

\* The handler raises TimeoutException where no try block catches it.
AlarmEscapes ==
    /\ Running
    /\ pending
    /\ ~InTry(tool, pc)
    /\ pending' = FALSE
    /\ Abort("TimeoutException")
    /\ UNCHANGED << Config, si, ci, test, results, events, alarm, elapsed,
                    child, retval, orphans, spawned >>

\* The child exits on its own.
ChildExit(code) ==
    /\ child.st = "running"
    /\ child' = Proc("exited", code)
    /\ UNCHANGED << Config, si, ci, test, pc, results, events, Timer, retval,
                    orphans, spawned, raised, exitStatus >>

\* SIGKILL takes effect on the child.
ChildDies ==
    /\ child.st = "killed"
    /\ child' = Proc("exited", -9)
    /\ UNCHANGED << Config, si, ci, test, pc, results, events, Timer, retval,
                    orphans, spawned, raised, exitStatus >>

\* A child of an earlier case ends.
OrphanExits ==
    /\ orphans > 0
    /\ orphans' = orphans - 1
    /\ UNCHANGED << Config, si, ci, test, pc, results, events, Timer, child,
                    retval, spawned, raised, exitStatus >>

Next ==
    \/ Run
    \/ RunTestset
    \/ EndTestset
    \/ ReportFinal
    \/ \E t \in Tests(tool) : SkipCase(t)
    \/ \E t \in Tests(tool) : SkipRaises(t)
    \/ \E t \in Tests(tool) : TR_Popen(t)
    \/ \E t \in Tests(tool) : TR_PopenFails(t)
    \/ TR_Alarm
    \/ TR_Try
    \/ TR_Communicate
    \/ TR_AlarmOff
    \/ TR_Timeout
    \/ TR_KillRaises
    \/ Classify
    \/ \E t \in Tests(tool) : RT_Enter(t)
    \/ RT_Popen
    \/ RT_PopenFails
    \/ RT_Exit
    \/ RT_Timeout
    \/ RT_Validate
    \/ RT_ValidateRaises
    \/ Tick
    \/ AlarmEscapes
    \/ \E code \in ExitCodes : ChildExit(code)
    \/ ChildDies
    \/ OrphanExits

Spec == Init /\ [][Next]_vars

(***************************************************************************)
(* tools/testrunner.py alone, with the scheduling it runs under: the       *)
(* interpreter goes on executing the program's statements, time passes     *)
(* while an alarm is armed and the kernel delivers SIGALRM, and the        *)
(* handler runs.  Nothing makes a child process exit on its own.           *)
(***************************************************************************)
TRInit == Init /\ tool = "testrunner"

\* The statements of the program, the signal handler included.
TRProgram ==
    \/ Run
    \/ RunTestset
    \/ EndTestset
    \/ ReportFinal
    \/ \E t \in Tests("testrunner") : SkipCase(t)
    \/ \E t \in Tests("testrunner") : SkipRaises(t)
    \/ \E t \in Tests("testrunner") : TR_Popen(t)
    \/ \E t \in Tests("testrunner") : TR_PopenFails(t)
    \/ TR_Alarm
    \/ TR_Try
    \/ TR_Communicate
    \/ TR_AlarmOff
    \/ TR_Timeout
    \/ TR_KillRaises
    \/ Classify
    \/ AlarmEscapes

TRNext ==
    \/ TRProgram
    \/ Tick
    \/ \E code \in ExitCodes : ChildExit(code)
    \/ ChildDies
    \/ OrphanExits

TRFairSpec ==
    TRInit /\ [][TRNext]_vars /\ WF_vars(TRProgram) /\ WF_vars(Tick)

(***************************************************************************)
(* The skip predicate of either tool, called for one case under a          *)
(* configuration without --skip-modules, and called again for the same     *)
(* case after a second construction that differs in --skip-modules only.   *)
(* `events` keeps what the calls returned.                                 *)
(***************************************************************************)
SkipInit ==
    /\ tool \in { "testrunner", "run_tests" }
    /\ self \in SkipConfigs
    /\ test \in SkipTests
    /\ manifest = << 1 >>
    /\ items = << 1 >>
    /\ si = 1
    /\ ci = 0
    /\ pc = "skip_first"
    /\ results = ZeroResults
    /\ events = << >>
    /\ alarm = 0
    /\ pending = FALSE
    /\ child = NoProc
    /\ retval = NoReturn
    /\ orphans = 0
    /\ spawned = 0
    /\ elapsed = 0
    /\ raised = None
    /\ exitStatus = 0

\* run_testset calls the skip predicate for the case.
EvalSkip ==
    /\ pc \in { "skip_first", "skip_second" }
    /\ events' = Append(events, [ ev |-> SkipResult(tool, self, test),
                                  set |-> CurSet, idx |-> ci + 1 ])
    /\ pc' = IF pc = "skip_first" THEN "skip_rerun" ELSE "skip_end"
    /\ UNCHANGED << Config, si, ci, test, results, Timer, child, retval,
                    orphans, spawned, raised, exitStatus >>

\* The runner is constructed again, with --skip-modules given.
Rerun(modules) ==
    /\ pc = "skip_rerun"
    /\ self' = [ self EXCEPT !.skip_modules = modules ]
    /\ pc' = "skip_second"
    /\ UNCHANGED << tool, manifest, items, si, ci, test, results, events,
                    Timer, child, retval, orphans, spawned, raised,
                    exitStatus >>

SkipNext ==
    \/ EvalSkip
    \/ \E modules \in ModuleLists : Rerun(modules)

SkipSpec == SkipInit /\ [][SkipNext]_vars

(***************************************************************************)
(* Quantities the properties speak of.                                     *)
(***************************************************************************)
CaseKinds == { "skip", "pass", "fail", "timeout" }

\* pass + fail + skip + timeout.
Tally == Counted("pass") + Counted("fail") + Counted("skip") + Counted("timeout")

\* The Reporter calls that give a case its outcome.
CaseEvents == { n \in 1..Len(events) : events[n].ev \in CaseKinds }

\* The outcome reports made for case i of set s.
EventsOf(s, i) == { n \in CaseEvents : events[n].set = s /\ events[n].idx = i }

\* The cases the loops have finished with: those of the sets already left
\* and those already taken from the current set.
RECURSIVE CasesOfSets(_)
CasesOfSets(n) == IF n = 0 THEN 0 ELSE manifest[items[n]] + CasesOfSets(n - 1)

Decided == IF si = 0 THEN 0 ELSE CasesOfSets(si - 1) + ci

\* The seconds after which the spec wants a case cut off: its own timeout
\* if it has one, otherwise the run's default.
EffectiveTimeout ==
    IF Len(test.timeout) = 1 THEN test.timeout[1] ELSE self.timeout

\* The processes of this run that are still alive.
Alive == orphans + (IF child.st \in { "running", "killed" } THEN 1 ELSE 0)

Last(seq) == seq[Len(seq)]

(***************************************************************************)
(* C1.  testrunner.py: a case whose child has not completed when its       *)
(* effective timeout has elapsed is reported TIMEOUT: run_test returns     *)
(* "TIMEOUT" for it, and the run does not end without a report for it.     *)
(* The code does not keep this: the alarm may fire after signal.alarm and  *)
(* before the try block, where nothing catches the exception (AlarmEscapes).*)
(***************************************************************************)
Overran ==
    /\ tool = "testrunner"
    /\ test # NoTest
    /\ elapsed >= EffectiveTimeout
    /\ child.st \in { "running", "killed" }

C1_OverrunIsTimeout ==
    Overran => /\ pc # "aborted"
               /\ pc = "tr_ret" => retval.kind = "TIMEOUT"

(***************************************************************************)
(* C2.  testrunner.py: the report and the counter of a case that was run   *)
(* are those of the reference classifier: timeout when run_test signalled  *)
(* a timeout, whatever the expected-failure flag; otherwise fail when      *)
(* (exit code # 0) differs from the flag; otherwise pass.                  *)
(***************************************************************************)
Reference(timedOut, code, expectFailure) ==
    CASE timedOut -> "timeout"
      [] ~timedOut /\ (code = 0) = expectFailure -> "fail"
      [] OTHER -> "pass"

C2_VerdictIsReference ==
    [][ (pc = "tr_ret" /\ pc' = "tests") =>
          LET want == Reference(retval.kind = "TIMEOUT", retval.code, test.xfail)
          IN  /\ Len(events') = Len(events) + 1
              /\ Last(events').ev = want
              /\ results' = [ results EXCEPT ![want] = @ + 1 ] ]_vars

\* A child killed by a signal was classified against an expected failure,
\* and another case failed.
C2_Witness ==
    /\ tool = "testrunner"
    /\ pc = "tr_ret"
    /\ retval.kind = "code"
    /\ retval.code < 0
    /\ test.xfail
    /\ Counted("fail") > 0

(***************************************************************************)
(* C3.  In every state of a run pass + fail + skip + timeout is the        *)
(* number of cases decided so far (the cases the loops are done with, and  *)
(* the outcome reports made), and when run() has finished it is the        *)
(* number of cases in the manifest.                                        *)
(***************************************************************************)
C3_TallyIsDecided ==
    /\ Tally = Decided
    /\ Tally = Cardinality(CaseEvents)
    /\ pc = "done" => Tally = SumSeq(manifest)

C3_Witness ==
    /\ pc = "done"
    /\ Tally = MaxCases
    /\ Counted("skip") > 0
    /\ Counted("timeout") > 0

(***************************************************************************)
(* C4.  Every case of the manifest gets exactly one outcome: when the run  *)
(* is over, one report and one count per case; never two for a case.       *)
(* The code does not keep this: a run that an exception ends leaves cases  *)
(* without an outcome.                                                     *)
(***************************************************************************)
C4_ExactlyOneOutcome ==
    /\ \A s \in 1..Len(manifest) : \A i \in 1..manifest[s] :
           /\ Cardinality(EventsOf(s, i)) <= 1
           /\ pc \in { "done", "aborted" } => Cardinality(EventsOf(s, i)) = 1
    /\ Tally = Cardinality(CaseEvents)

(***************************************************************************)
(* C5.  When all sets are processed the exit status of the runner is       *)
(* non-zero exactly if fail > 0 or timeout > 0.  The code does not keep    *)
(* this: main() returns nothing and the status is 0.                       *)
(***************************************************************************)
C5_ExitStatusReflectsTally ==
    pc = "done" =>
        ((exitStatus # 0) <=> (Counted("fail") > 0 \/ Counted("timeout") > 0))

(***************************************************************************)
(* C6.  testrunner.py run_test: when communicate() has returned and the    *)
(* exit code was obtained, run_test does not return "TIMEOUT"; when the    *)
(* deadline fired first, it does not return the exit code.  The code does  *)
(* not keep the first half: the alarm may fire before signal.alarm(0).     *)
(***************************************************************************)
C6_OneResolution ==
    (tool = "testrunner" /\ pc = "tr_ret") =>
        (child.st = "reaped" <=> retval.kind = "code")

(***************************************************************************)
(* C7.  testrunner.py: when run_test has returned its child is no longer   *)
(* running, and at most one child is alive at any time.  The code does not *)
(* keep this: process.kill() is not followed by a wait.                    *)
(***************************************************************************)
C7_ChildGoneOnReturn ==
    /\ (tool = "testrunner" /\ pc = "tr_ret") =>
           child.st \notin { "running", "killed" }
    /\ tool = "testrunner" => Alive <= 1

(***************************************************************************)
(* C8.  In both runners no alarm is armed and no SIGALRM is outstanding    *)
(* outside the stretch of run_test that arms it: not in the loops of run   *)
(* and run_testset, not while a later case is skipped, spawned, waited for *)
(* or classified, not when the run is over.                                *)
(***************************************************************************)
ArmedStretch == { "tr_armed", "tr_communicate", "tr_got", "rt_with", "rt_popened" }

C8_NoStaleAlarm ==
    pc \notin ArmedStretch => (alarm = 0 /\ ~pending)

\* A second case, with its own timeout, is being spawned after a first one
\* returned its exit code and passed; no alarm is armed.
C8_Witness ==
    /\ tool = "testrunner"
    /\ pc = "tr_popened"
    /\ Counted("pass") = 1
    /\ EffectiveTimeout = 1
    /\ self.timeout = 2
    /\ alarm = 0

(***************************************************************************)
(* C9.  testrunner.py: an OSError of subprocess.Popen does not leave       *)
(* run(); the case is counted as a failure and the run goes on.  The code  *)
(* does not keep this: nothing catches the exception.                      *)
(***************************************************************************)
C9_SpawnFailureAbsorbed ==
    ~( /\ tool = "testrunner"
       /\ pc = "aborted"
       /\ raised = "OSError"
       /\ child.st = "none" )

(***************************************************************************)
(* C10.  In both runners a case with "all" in its skip list is skipped     *)
(* under every configuration, a skipped case has no process, and when the  *)
(* run has finished the number of processes created is the number of       *)
(* cases that were not skipped.  run_tests.py does not keep the last part. *)
(***************************************************************************)
C10_SpawnedIsNonSkipped ==
    /\ \A c \in Configs : \A t \in Tests(tool) :
           InList("all", t.skip) => SkipResult(tool, c, t) = "True"
    /\ spawned <= (Decided - Counted("skip")) + (IF test # NoTest THEN 1 ELSE 0)
    /\ pc = "done" => spawned = SumSeq(manifest) - Counted("skip")

(***************************************************************************)
(* C11.  run_tests.py: a case whose child is still running when its        *)
(* effective timeout has elapsed is cut off and reported TIMEOUT: run_test *)
(* is not waiting for that child to end on its own.  The code does not     *)
(* keep this: the alarm is armed around subprocess.Popen only and is       *)
(* cancelled before communicate() starts to wait.                          *)
(***************************************************************************)
OverranRT ==
    /\ tool = "run_tests"
    /\ test # NoTest
    /\ elapsed >= EffectiveTimeout
    /\ child.st = "running"

C11_OverrunIsTimeoutRT ==
    OverranRT => /\ pc # "rt_wait"
                 /\ alarm > 0 \/ pending

(***************************************************************************)
(* C12.  run_tests.py validate_results: for a case without the key         *)
(* "expected" the report is that of the boolean-equality rule: fail when   *)
(* (exit code # 0) differs from the case's "fail" flag, pass otherwise.    *)
(* The code does not keep this: it fails a case only when the exit code is *)
(* non-zero and "fail" is true.                                            *)
(***************************************************************************)
C12_ValidateIsBooleanEquality ==
    [][ (tool = "run_tests" /\ pc = "rt_wait" /\ pc' = "tests"
            /\ ~test.expected) =>
          /\ Len(events') = Len(events) + 1
          /\ Last(events').ev = Reference(FALSE, child.code, test.xfail) ]_vars

(***************************************************************************)
(* C13.  run_tests.py: for a case with the key "expected", with the output *)
(* comparison enabled, the report is fail when the exit code violates the  *)
(* expectation, else fail when the file's content differs from the         *)
(* captured output, else pass.  The code does not keep this:               *)
(* is_output_as_expected raises NameError before it opens the file.        *)
(***************************************************************************)
ReferenceWithOutput(code, expectFailure, golden) ==
    IF Reference(FALSE, code, expectFailure) = "fail" THEN "fail"
    ELSE IF golden # "same" THEN "fail"
    ELSE "pass"

C13_OutputComparisonDecides ==
    [][ (tool = "run_tests" /\ pc = "rt_wait" /\ pc' # "rt_wait"
            /\ test.expected /\ ~self.skip_expected) =>
          /\ pc' = "tests"
          /\ Len(events') = Len(events) + 1
          /\ Last(events').ev =
                 ReferenceWithOutput(child.code, test.xfail, test.golden) ]_vars

(***************************************************************************)
(* C14.  run_tests.py: a case whose expected-output file is missing or     *)
(* unreadable does not end the run: no exception leaves run() once its     *)
(* child has exited.  The code does not keep this: the NameError of        *)
(* is_output_as_expected is not an IOError and nothing catches it.         *)
(***************************************************************************)
C14_MissingGoldenIsAbsorbed ==
    ( /\ tool = "run_tests"
      /\ test # NoTest
      /\ test.golden = "missing"
      /\ ~self.skip_expected
      /\ child.st \in { "exited", "reaped" } ) => pc # "aborted"

(***************************************************************************)
(* C15.  Of two runs that differ only in --skip-modules (none, then a list *)
(* of tokens), the second skips every case whose name contains one of the  *)
(* tokens, and for a case whose name contains none of them both runs take  *)
(* the same decision.  skip_test and should_be_skipped alike.              *)
(***************************************************************************)
NameHasToken ==
    \E k \in 1..Len(self.skip_modules) :
        IsSubstring(self.skip_modules[k], test.name)

C15_SkipModulesSkipsExactly ==
    pc = "skip_end" =>
        /\ NameHasToken => events[2].ev = "True"
        /\ ~NameHasToken => events[2].ev = events[1].ev

\* A case that ran without --skip-modules is skipped with it, for a token
\* that is inside the name and is not its module part's position alone.
C15_Witness ==
    /\ pc = "skip_end"
    /\ test.name = Str_run_fs_js
    /\ events[1].ev = "False"
    /\ events[2].ev = "True"
    /\ self.skip_modules = << Str_net, Str_fs >>

(***************************************************************************)
(* C16.  testrunner.py skip_test decides by the ordered rules: skip for a  *)
(* tag "all", the platform or the stability tier; else skip for a disabled *)
(* module inside the name; else skip by module gating only when the        *)
(* allow-list of builtins is not empty, the name is test_<module>... and   *)
(* the module is not in the list; else do not skip.  Stated for the calls  *)
(* that return a decision.  The code does not keep this: with an empty     *)
(* allow-list it skips every test_<module> case.                           *)
(***************************************************************************)
SkipReference(config, case) ==
    LET parts == Split(StripExt(case.name))
    IN  \/ \E tag \in { "all", config.os, config.stability } :
               InList(tag, case.skip)
        \/ \E k \in 1..Len(config.skip_modules) :
               IsSubstring(config.skip_modules[k], case.name)
        \/ /\ config.builtins # << >>
           /\ Len(parts) >= 2
           /\ parts[1] = << "t","e","s","t" >>
           /\ ~InList(parts[2], config.builtins)

C16_SkipFollowsOrderedRules ==
    ( /\ tool = "testrunner"
      /\ pc \in { "skip_rerun", "skip_end" }
      /\ Last(events).ev \in { "True", "False" } ) =>
        Last(events).ev = IF SkipReference(self, test) THEN "True" ELSE "False"

(***************************************************************************)
(* C17.  testrunner.py: the Reporter calls of a run are, in this order:    *)
(* the configuration; then for every test set, in the order of the         *)
(* manifest, the set and one outcome per case in the order of the set;     *)
(* then the final tally, which a finished run has made.  The code does     *)
(* not keep this: the sets are taken in the order of testsets.items().     *)
(***************************************************************************)
Slot(cls, s, i) == [ cls |-> cls, set |-> s, idx |-> i ]

RECURSIVE CaseSlots(_, _)
CaseSlots(s, n) ==
    IF n = 0 THEN << >> ELSE Append(CaseSlots(s, n - 1), Slot("case", s, n))

RECURSIVE SetSlots(_)
SetSlots(k) ==
    IF k = 0 THEN << >>
    ELSE SetSlots(k - 1) \o << Slot("testset", k, 0) >>
                         \o CaseSlots(k, manifest[k])

ExpectedOrder ==
    << Slot("config", 0, 0) >> \o SetSlots(Len(manifest))
                               \o << Slot("final", 0, 0) >>

SlotOf(e) ==
    Slot(IF e.ev \in CaseKinds THEN "case" ELSE e.ev, e.set, e.idx)

C17_EventsInManifestOrder ==
    tool = "testrunner" =>
        /\ Len(events) <= Len(ExpectedOrder)
        /\ \A n \in 1..Len(events) : SlotOf(events[n]) = ExpectedOrder[n]
        /\ pc \in { "done", "aborted" } => Len(events) = Len(ExpectedOrder)

(***************************************************************************)
(* C18.  testrunner.py: a case is reported skipped only while it is        *)
(* pending, and passed, failed or timed out only after it was run; a       *)
(* report once made is never changed; and, the alarm being delivered,      *)
(* every case whose process was created gets its report and the loop goes  *)
(* on to the next case or the final tally, also when the child never       *)
(* exits.  The code does not keep the last part: the alarm's exception     *)
(* may end the run while the case is running.                              *)
(***************************************************************************)
C18_CasesTerminate ==
    /\ [][ /\ Len(events') >= Len(events)
           /\ SubSeq(events', 1, Len(events)) = events
           /\ Len(events') > Len(events) =>
                /\ Len(events') = Len(events) + 1
                /\ Last(events').ev = "skip" => pc = "tests"
                /\ Last(events').ev \in { "pass", "fail", "timeout" } =>
                       pc = "tr_ret" ]_vars
    /\ (pc = "tr_popened") ~> (pc = "tests")

(***************************************************************************)
(* C19.  testrunner.py: the TimeoutException of alarm_handler never leaves *)
(* run_test.  The code does not keep this: signal.alarm is called before   *)
(* the try statement, and an alarm that fires between the two is raised    *)
(* where no except clause is in force.                                     *)
(***************************************************************************)
C19_TimeoutExceptionIsCaught ==
    tool = "testrunner" => raised # "TimeoutException"

(***************************************************************************)
(* C20.  testrunner.py skip_test is total and pure: every call returns     *)
(* True or False, and the call changes nothing of the runner (counters,    *)
(* alarm, processes).  The code does not keep this: for a name such as     *)
(* test.js, parts[1] raises IndexError.                                    *)
(***************************************************************************)
C20_SkipTestIsTotal ==
    [][ (tool = "testrunner" /\ Len(events') = Len(events) + 1) =>
          /\ Last(events').ev \in { "True", "False" }
          /\ UNCHANGED << results, alarm, pending, child, orphans, spawned >>
      ]_vars

====
